---- MODULE Spec2Model ----
(***************************************************************************)
(* Model of the layered configuration engine of pr-maker (initConfig) and  *)
(* of the handle it returns (get / set / toJSON), translated from          *)
(* src/main.ts lines 33-358.                                               *)
(*                                                                         *)
(* JavaScript values are pairs <<type, payload>>; objects are functions    *)
(* from property names to values; the three objects the code works with    *)
(* (the caller's schema object, actualDefaultConfig, currentConfig) live   *)
(* in a small memory indexed by object reference, so that sharing of an    *)
(* object between two names is something the model can express.            *)
(***************************************************************************)
EXTENDS Integers, Sequences, FiniteSets, TLC

VARIABLES
  schemaId,   \* which schema literal the caller passes as defaultConfig
  mem,        \* object memory: reference -> object (property -> value)
  file,       \* the persisted file <root>/<appId>/config.json
  handle,     \* the handle returned by the last initConfig call (or none)
  promptHistory,  \* process-wide prompt history (test support)
  scripted,   \* process-wide queue of scripted prompt answers (test support)
  disk,       \* does Deno.writeTextFile on the config file succeed or throw
  last,       \* observation of the last operation performed
  platform,   \* Deno.build.os and the environment variables naming directories
  configPath, \* result of the last getConfigPath call, and the directories made
  writers,    \* two handles made for the same appId, each with its own memory
  lastWriter, \* the handle whose write of the persisted file completed last
  cli,        \* the runCli call in progress: position, arguments, locals, result
  remote,     \* the remote repository: branches pushed and pull requests made
  flows,      \* workflow runs served at once: position and branch-naming locals
  server,     \* the /create-pr request being handled, and the response sent
  log         \* the lines written to the console that show a token or mask it

vars == <<schemaId, mem, file, handle, promptHistory, scripted, disk, last,
          platform, configPath, writers, lastWriter, cli, remote, flows,
          server, log>>

\* the variables of the configuration engine proper
configVars == <<schemaId, mem, file, handle, promptHistory, scripted, disk, last>>

\* the variables of the config path resolver
pathVars == <<platform, configPath>>

\* the variables of two handles sharing one persisted file
raceVars == <<writers, lastWriter>>

\* the variables of runCli and of the world its workflow acts on
cliVars == <<cli, remote>>

\* the variables of workflow runs served at once
flowVars == <<flows>>

\* the variables of the HTTP server and of the console
serverVars == <<server, log>>

----------------------------------------------------------------------------
(* Bounds of the model *)

MaxHistory == 2     \* prompt history records kept before the caller clears it
MaxScripted == 2    \* scripted answers queued at once
MaxRuns == 2        \* runCli calls made one after the other
MaxTitleLen == 3    \* characters of a pull request title
MaxBranches == 2    \* branches of the desired name the remote holds at the start

----------------------------------------------------------------------------
(* JavaScript values *)

Str(s)  == <<"string", s>>
Num(s)  == <<"number", s>>
Bool(s) == <<"boolean", s>>
Null      == <<"null", "null">>
Undefined == <<"undefined", "undefined">>

TypeOf(v) == v[1]

\* the language-level notion of truthiness used by `!currentConfig[key]`
Truthy(v) ==
  CASE v[1] = "string"  -> v[2] # ""
    [] v[1] = "number"  -> v[2] \notin {"0", "NaN"}
    [] v[1] = "boolean" -> v[2] = "true"
    [] OTHER -> FALSE

EmptyObject == [k \in {} |-> Undefined]

\* Object.assign(target, source): every own property of source is copied
ObjectAssign(target, source) ==
  [k \in (DOMAIN target) \cup (DOMAIN source) |->
     IF k \in DOMAIN source THEN source[k] ELSE target[k]]

\* obj[key] = value (creates the property when it does not exist)
PutProp(obj, key, value) ==
  [k \in (DOMAIN obj) \cup {key} |-> IF k = key THEN value ELSE obj[k]]

\* obj[key] (undefined when the property does not exist)
GetProp(obj, key) == IF key \in DOMAIN obj THEN obj[key] ELSE Undefined

\* property names every plain object inherits from Object.prototype
ObjectPrototypeKeys == {"toString", "constructor"}

\* the `in` operator on a plain object: own or inherited property
HasProperty(key, obj) == key \in DOMAIN obj \/ key \in ObjectPrototypeKeys

\* obj[key] read through the prototype chain: an inherited property of a
\* plain object is a function
ReadProp(obj, key) ==
  IF key \in DOMAIN obj THEN obj[key]
  ELSE IF key \in ObjectPrototypeKeys THEN <<"function", key>>
  ELSE Undefined

\* JSON.stringify of one value inside an object
JSONValue(v) ==
  IF v[1] = "number" /\ v[2] \in {"Infinity", "NaN"} THEN Null ELSE v

\* JSON.stringify(obj, null, 2): properties whose value is undefined or a
\* function are omitted, non-finite numbers are written as null
JSONStringify(obj) ==
  [k \in {x \in DOMAIN obj : obj[x][1] \notin {"undefined", "function"}} |->
     JSONValue(obj[k])]

\* JSON.parse of a text produced by JSON.stringify: the text's members
JSONParse(text) == text

----------------------------------------------------------------------------
(* getConfigPath.  A path is the sequence of its segments; a directory     *)
(* variable of the environment is undefined, the empty string or a path.    *)

\* configDir left undefined
NoDir == <<>>

\* the value of a directory variable, as a path
EnvDir(v) == IF v = Undefined THEN NoDir ELSE <<v[2]>>

\* line 131: !configDir (undefined or the empty string)
DirFalsy(d) == d \in {NoDir, <<"">>}

\* join(dir, ...segments) of @std/path
join(dir, segments) == dir \o segments

\* line 126-127: `a ?? b` yields b only when a is undefined or null
Coalesce(a, b) == IF a \in {Undefined, Null} THEN b ELSE EnvDir(a)

\* lines 111-129: the switch on Deno.build.os
ConfigDir(p) ==
  CASE p.os = "windows" -> EnvDir(p.env["APPDATA"])
    [] p.os = "darwin"  ->
         IF Truthy(p.env["HOME"])
           THEN join(EnvDir(p.env["HOME"]), <<"Library", "Application Support">>)
           ELSE EnvDir(p.env["HOME"])
    [] OTHER ->
         Coalesce(p.env["XDG_CONFIG_HOME"],
                  IF Truthy(p.env["HOME"])
                    THEN join(EnvDir(p.env["HOME"]), <<".config">>)
                    ELSE NoDir)

\* lines 107-141: getConfigPath(appId); dir is the directory ensureDir makes
getConfigPath(p, appId) ==
  LET configDir == ConfigDir(p)
  IN IF DirFalsy(configDir)
       THEN [status |-> "throws", dir |-> NoDir, path |-> NoDir]
       ELSE [status |-> "ok", dir |-> join(configDir, <<appId>>),
             path |-> join(join(configDir, <<appId>>), <<"config.json">>)]

\* cli.ts: const appId
AppId == "com.axhxrx.pr-maker"

----------------------------------------------------------------------------
(* Schemas: the defaultConfig literals of the repository *)

\* an options record without envOverride ("" = not declared) and without
\* promptIfFalsy (undefined = not declared)
NoOptions == [envOverride |-> "", promptIfFalsy |-> Undefined]

\* configValue(value, options)
configValue(value, options) == <<"wrapper", value, options>>

isConfigValueWrapper(e) == e[1] = "wrapper"

\* cli.ts defaultConfig (githubOrg, repoName, yes)
SchemaPrMaker ==
  [githubOrg |-> configValue(Str(""),
       [envOverride |-> "PR_MAKER_GITHUB_ORG",
        promptIfFalsy |-> Str("Enter the GitHub organization name:")]),
   repoName |-> configValue(Str(""),
       [envOverride |-> "PR_MAKER_REPO_NAME",
        promptIfFalsy |-> Str("Enter the repository name:")]),
   yes |-> configValue(Bool("false"),
       [envOverride |-> "PR_MAKER_YES", promptIfFalsy |-> Undefined])]

\* cli.ts defaultConfig as runCli uses it: the same literal with its dryRun key
defaultConfig ==
  [k \in DOMAIN SchemaPrMaker \cup {"dryRun"} |->
     IF k = "dryRun"
       THEN configValue(Bool("false"),
              [envOverride |-> "PR_MAKER_DRY_RUN", promptIfFalsy |-> Undefined])
       ELSE SchemaPrMaker[k]]

\* cli.ts lines 323-342: defaultConfig with all its keys, as runCli resolves
\* it for a request of the server
PrMakerConfig ==
  [githubOrg |-> SchemaPrMaker["githubOrg"],
   repoName |-> SchemaPrMaker["repoName"],
   baseBranch |-> configValue(Str("main"),
       [envOverride |-> "PR_MAKER_BASE_BRANCH",
        promptIfFalsy |-> Str("Enter the base branch name:")]),
   prTitle |-> configValue(Str("Automated PR"),
       [envOverride |-> "PR_MAKER_PR_TITLE",
        promptIfFalsy |-> Str("Enter the pull request title:")]),
   prBody |-> configValue(Str("This PR was created automatically."),
       [envOverride |-> "PR_MAKER_PR_BODY",
        promptIfFalsy |-> Str("Enter the pull request body:")]),
   prLabels |-> configValue(Str(""),
       [envOverride |-> "PR_MAKER_PR_LABELS", promptIfFalsy |-> Undefined]),
   githubToken |-> configValue(Str(""),
       [envOverride |-> "GITHUB_TOKEN",
        promptIfFalsy |-> Str("Enter GitHub Token (or set GITHUB_TOKEN env var):")]),
   yes |-> SchemaPrMaker["yes"],
   dryRun |-> defaultConfig["dryRun"]]

\* initConfig.example.ts defaultConfig (message, repeat, api-key)
SchemaExample ==
  [message |-> configValue(Str(""),
       [envOverride |-> "", promptIfFalsy |-> Bool("true")]),
   repeat |-> Num("1"),
   apiKey |-> configValue(Str(""),
       [envOverride |-> "API_KEY", promptIfFalsy |-> Undefined])]

Schemas == [prmaker |-> SchemaPrMaker, example |-> SchemaExample,
            cli |-> defaultConfig, server |-> PrMakerConfig]

\* for..in enumeration order of each schema literal
SchemaOrder ==
  [prmaker |-> <<"githubOrg", "repoName", "yes">>,
   example |-> <<"message", "repeat", "apiKey">>,
   cli     |-> <<"githubOrg", "repoName", "yes", "dryRun">>,
   server  |-> <<"githubOrg", "repoName", "baseBranch", "prTitle", "prBody",
                 "prLabels", "githubToken", "yes", "dryRun">>,
   empty   |-> <<>>]

----------------------------------------------------------------------------
(* initConfig, step by step *)

\* lines 182-197: the base value of one schema entry
UnwrapValue(entry) == IF isConfigValueWrapper(entry) THEN entry[2] ELSE entry

\* lines 182-197: the options stored in metadataMap for one schema entry
EntryOptions(entry) == IF isConfigValueWrapper(entry) THEN entry[3] ELSE NoOptions

\* lines 179-197: actualDefaultConfig filled from the schema object
UnwrapDefaults(schemaObj) == [k \in DOMAIN schemaObj |-> UnwrapValue(schemaObj[k])]

\* lines 177-197: metadataMap
MetadataMap(schemaObj) == [k \in DOMAIN schemaObj |-> EntryOptions(schemaObj[k])]

\* line 228: metadataMap.get(key) ?? {}
OptionsOf(metadataMap, key) ==
  IF key \in DOMAIN metadataMap THEN metadataMap[key] ELSE NoOptions

\* line 179: `{} as T` is a fresh object, named here "base"
BaseRef == "base"

\* currentConfig made another name of the object it was to copy
CloneRefShared(src) == src

\* line 199: structuredClone returns a fresh object, named here "work"
CloneRef(src) == "work"

\* line 199: structuredClone copies every property (values are primitives)
StructuredClone(obj) == [k \in DOMAIN obj |-> obj[k]]

\* the file layer never read
LoadedConfigIgnored(f) == EmptyObject

\* the catch block rethrowing every error but "file not found"
LoadRethrowsUnlessNotFound(f) == f.state \in {"unreadable", "corrupt"}

\* lines 208-222: does the catch block of the file load rethrow; it logs
\* (info for NotFound, warning otherwise) and rethrows nothing
LoadRethrows(f) == FALSE

\* lines 202-222: what the file layer contributes; a missing file, a read
\* error and a parse error all leave the defaults alone
LoadedConfig(f) == IF f.state = "ok" THEN JSONParse(f.content) ELSE EmptyObject

\* line 247: Deno.env.get(name)
EnvGet(env, name) == IF name \in DOMAIN env THEN env[name] ELSE Undefined

\* lines 232-242: is an override applied for this key
OverrideApplies(ov, key) ==
  ov.given /\ HasProperty(key, ov.obj) /\ ReadProp(ov.obj, key) # Undefined

\* lines 245-255: is the environment variable applied for this key
EnvApplies(options, env) ==
  /\ options.envOverride # ""
  /\ EnvGet(env, options.envOverride) \notin {Undefined, Str("")}

\* lines 232-242: the value after the override step
ApplyOverride(value, key, ov) ==
  IF OverrideApplies(ov, key) THEN ReadProp(ov.obj, key) ELSE value

\* the environment step without the valueApplied test
ApplyEnvIgnoringOverride(value, valueApplied, options, env) ==
  IF EnvApplies(options, env) THEN EnvGet(env, options.envOverride) ELSE value

\* lines 245-255: the value after the environment step; valueApplied is the
\* flag set by the override step
ApplyEnv(value, valueApplied, options, env) ==
  IF ~valueApplied /\ EnvApplies(options, env)
    THEN EnvGet(env, options.envOverride)
    ELSE value

\* lines 225-256: one iteration of the loop, for one key
ResolveKey(value, key, options, ov, env) ==
  ApplyEnv(ApplyOverride(value, key, ov), OverrideApplies(ov, key), options, env)

\* lines 225-256: the loop over the keys of currentConfig
ApplyOverridesAndEnv(cfg, metadataMap, ov, env) ==
  [k \in DOMAIN cfg |-> ResolveKey(cfg[k], k, OptionsOf(metadataMap, k), ov, env)]

\* the prompt test without the falsiness of the value
NeedsPromptAlways(options, value) == Truthy(options.promptIfFalsy)

\* line 262: does the prompt fire for this key
NeedsPrompt(options, value) == Truthy(options.promptIfFalsy) /\ ~Truthy(value)

\* lines 264-276: the prompt message
PromptMessage(key, options) ==
  IF options.promptIfFalsy[1] = "string" THEN <<options.promptIfFalsy[2]>>
  ELSE IF options.envOverride # ""
    THEN <<"Please enter value for '", key, "' (or set env var ", options.envOverride, "):">>
  ELSE <<"Please enter value for '", key, "':">>

\* line 279 as the tests use it: the prompt call records {message} in the
\* process-wide prompt history, then takes the next scripted answer when the
\* scripted-input queue is non-empty and asks the terminal otherwise
Prompt(message, hist, queue, term) ==
  [hist   |-> Append(hist, [message |-> message]),
   queue  |-> IF queue # <<>> THEN Tail(queue) ELSE queue,
   answer |-> IF queue # <<>> THEN Head(queue) ELSE term,
   source |-> IF queue # <<>> THEN "scripted" ELSE "terminal"]

\* line 279 as written: the runtime's blocking prompt(message); term is what
\* the terminal returns
TerminalPrompt(message, hist, queue, term) ==
  [hist |-> hist, queue |-> queue, answer |-> term, source |-> "terminal"]

\* line 279: the prompt call, through the driver in use
AskPrompt(driver, message, hist, queue, term) ==
  IF driver = "recording" THEN Prompt(message, hist, queue, term)
  ELSE TerminalPrompt(message, hist, queue, term)

\* a null answer not recognised as a cancellation
CancelledNever(answer) == FALSE

\* line 281: the prompt was cancelled
Cancelled(answer) == answer = Null

\* the prompt loop's iteration without the assignment of the answer
PromptStepDropsAnswer(rs, key, options, driver, term) ==
  IF rs.error # "none" \/ ~Truthy(options.promptIfFalsy)
       \/ Truthy(GetProp(rs.cfg, key)) THEN rs
  ELSE
    LET p == AskPrompt(driver, PromptMessage(key, options), rs.hist, rs.queue, term)
        rec == [key |-> key, message |-> PromptMessage(key, options),
                answer |-> p.answer, source |-> p.source,
                histLen |-> Len(rs.hist)]
    IN IF p.answer = Null
         THEN [rs EXCEPT !.hist = p.hist, !.queue = p.queue,
                         !.fired = Append(@, rec), !.error = key]
         ELSE [rs EXCEPT !.hist = p.hist, !.queue = p.queue,
                         !.fired = Append(@, rec),
                         !.needsSave = TRUE]

\* lines 262-291: one iteration of the prompt loop; rs.error names the key
\* whose prompt was cancelled ("none" while no prompt was cancelled)
PromptStep(rs, key, options, driver, term) ==
  IF rs.error # "none" \/ ~NeedsPrompt(options, GetProp(rs.cfg, key)) THEN rs
  ELSE
    LET p == AskPrompt(driver, PromptMessage(key, options), rs.hist, rs.queue, term)
        rec == [key |-> key, message |-> PromptMessage(key, options),
                answer |-> p.answer, source |-> p.source,
                histLen |-> Len(rs.hist)]
    IN IF Cancelled(p.answer)
         THEN [rs EXCEPT !.hist = p.hist, !.queue = p.queue,
                         !.fired = Append(@, rec), !.error = key]
         ELSE [rs EXCEPT !.hist = p.hist, !.queue = p.queue,
                         !.fired = Append(@, rec),
                         !.cfg = PutProp(@, key, p.answer),
                         !.needsSave = TRUE]

\* lines 260-292: the loop over metadataMap.entries(), in insertion order
RECURSIVE PromptLoop(_, _, _, _, _, _)
PromptLoop(order, i, rs, metadataMap, driver, term) ==
  IF i > Len(order) THEN rs
  ELSE PromptLoop(order, i + 1,
                  PromptStep(rs, order[i], metadataMap[order[i]], driver, term),
                  metadataMap, driver, term)

\* the configuration saved at the end of every initConfig
AlwaysSave(rs) == TRUE

\* line 314: is the configuration saved at the end of initConfig
NeedsSaveAfterPrompt(rs) == rs.needsSave

\* the answers given so far saved although a later prompt was cancelled
SavesAnswersSoFar(rs) == NeedsSaveAfterPrompt(rs)

\* lines 281-284 and 314-318: the throw of a cancelled prompt leaves
\* initConfig before the save; otherwise the flag decides
SavesAfterPrompts(rs) == rs.error = "none" /\ NeedsSaveAfterPrompt(rs)

\* line 283: the message of the error thrown when a prompt is cancelled
CancelledMessage(key) ==
  <<"Configuration incomplete: User cancelled prompt for key '", key, "'.">>

\* the file written only when it does not exist yet
saveConfigCreateNew(cfg, f, wr) ==
  IF wr = "ok"
    THEN [file |-> IF f.state = "ok" THEN f
                   ELSE [state |-> "ok", content |-> JSONStringify(cfg)],
          threw |-> FALSE]
    ELSE [file |-> f, threw |-> TRUE]

\* lines 295-311: saveConfig; wr is the outcome of Deno.writeTextFile
saveConfig(cfg, f, wr) ==
  IF wr = "ok"
    THEN [file |-> [state |-> "ok", content |-> JSONStringify(cfg)], threw |-> FALSE]
    ELSE [file |-> f, threw |-> TRUE]

\* lines 176-318: one whole initConfig call
InitConfigRun(sid, m, f, hist, queue, driver, ov, env, term, wr) ==
  LET schemaObj   == m["schema"]
      metadataMap == MetadataMap(schemaObj)
      m1   == [m EXCEPT ![BaseRef] = UnwrapDefaults(schemaObj)]
      cur  == CloneRef(BaseRef)
      c0   == StructuredClone(m1[BaseRef])
      c1   == ObjectAssign(c0, LoadedConfig(f))
      c2   == ApplyOverridesAndEnv(c1, metadataMap, ov, env)
      rs   == PromptLoop(SchemaOrder[sid], 1,
                 [cfg |-> c2, hist |-> hist, queue |-> queue, fired |-> <<>>,
                  error |-> "none", needsSave |-> FALSE],
                 metadataMap, driver, term)
      saves == SavesAfterPrompts(rs)
      sv   == IF saves THEN saveConfig(rs.cfg, f, wr)
              ELSE [file |-> f, threw |-> FALSE]
  IN IF LoadRethrows(f)
       THEN [mem |-> [m1 EXCEPT ![cur] = c0], cur |-> cur, file |-> f,
             hist |-> hist, queue |-> queue, outcome |-> "LoadFailed",
             errKey |-> "none", message |-> <<>>, resolved |-> c0,
             fired |-> <<>>, wrote |-> FALSE]
       ELSE
     [mem      |-> [m1 EXCEPT ![cur] = rs.cfg],
      cur      |-> cur,
      file     |-> sv.file,
      hist     |-> rs.hist,
      queue    |-> rs.queue,
      outcome  |-> IF rs.error # "none" THEN "ConfigIncomplete"
                   ELSE IF sv.threw THEN "WriteFailed" ELSE "ok",
      errKey   |-> rs.error,
      message  |-> IF rs.error # "none" THEN CancelledMessage(rs.error) ELSE <<>>,
      resolved |-> c2,
      fired    |-> rs.fired,
      wrote    |-> saves /\ ~sv.threw]

----------------------------------------------------------------------------
(* The handle *)

\* lines 323-326: get(key)
Get(m, h, key) == ReadProp(m[h.cur], key)

\* line 331: the key is rejected
UnknownKey(m, h, key) == ~HasProperty(key, m[h.base])

\* set saving before it assigns
SetRunSaveFirst(m, h, f, key, value, wr) ==
  IF ~HasProperty(key, m[h.base])
    THEN [mem |-> m, file |-> f, outcome |-> "UnknownConfigKey", wrote |-> FALSE,
          message |-> <<"initConfig(): Attempted to set unknown config key: ", key>>]
    ELSE LET sv == saveConfig(m[h.cur], f, wr)
         IN [mem |-> [m EXCEPT ![h.cur] = PutProp(@, key, value)],
             file |-> sv.file,
             outcome |-> IF sv.threw THEN "WriteFailed" ELSE "ok",
             wrote |-> ~sv.threw,
             message |-> <<>>]

\* set rebuilding the snapshot from the defaults and the new value
SetRunFromDefaults(m, h, f, key, value, wr) ==
  IF ~HasProperty(key, m[h.base])
    THEN [mem |-> m, file |-> f, outcome |-> "UnknownConfigKey", wrote |-> FALSE,
          message |-> <<"initConfig(): Attempted to set unknown config key: ", key>>]
    ELSE LET m1 == [m EXCEPT ![h.cur] = PutProp(m[h.base], key, value)]
             sv == saveConfig(m1[h.cur], f, wr)
         IN [mem |-> m1, file |-> sv.file,
             outcome |-> IF sv.threw THEN "WriteFailed" ELSE "ok",
             wrote |-> ~sv.threw,
             message |-> <<>>]

\* lines 329-337: one whole set call
SetRun(m, h, f, key, value, wr) ==
  IF UnknownKey(m, h, key)
    THEN [mem |-> m, file |-> f, outcome |-> "UnknownConfigKey", wrote |-> FALSE,
          message |-> <<"initConfig(): Attempted to set unknown config key: ", key>>]
    ELSE LET m1 == [m EXCEPT ![h.cur] = PutProp(@, key, value)]
             sv == saveConfig(m1[h.cur], f, wr)
         IN [mem |-> m1, file |-> sv.file,
             outcome |-> IF sv.threw THEN "WriteFailed" ELSE "ok",
             wrote |-> ~sv.threw,
             message |-> <<>>]

\* lines 346-349: toJSON() returns currentConfig
ToJSON(m, h) == m[h.cur]

\* a reference to an object that is no part of the handle's memory
FreshRef == "fresh"

\* the object each snapshot accessor hands to the caller: toJSON returns
\* currentConfig itself (line 348); the inspection method returns a string
\* made by JSON.stringify (line 355), which the caller can only parse into an
\* object of its own
ReturnedRef(h, accessor) ==
  IF accessor = "toJSON" THEN h.cur ELSE FreshRef

----------------------------------------------------------------------------
(* runCli and the helpers its workflow calls *)

\* the --help flag never looked at
HelpRequestedNever(args) == FALSE

\* cli.ts line 429: if (parsedArgs.help)
HelpRequested(args) == Truthy(args.help)

\* cli.ts line 444: the overrideConfig of initConfig(appId, {}, {})
EmptyOverrides == [given |-> TRUE, obj |-> EmptyObject]

\* cli.ts lines 449-459: the overrideConfig runCli builds from parsedArgs
CliOverrides(args) ==
  [given |-> TRUE, obj |-> [k \in DOMAIN args \ {"help"} |-> args[k]]]

\* cli.ts lines 462-469: currentConfig filled with configManager.get(key)
\* for each key of defaultConfig
CliConfigFromHandle(m, h) == [k \in DOMAIN m[h.base] |-> Get(m, h, k)]

\* cli.ts lines 473-480: each key given on the command line overrides
CliApplyArgs(cfg, args) ==
  [k \in DOMAIN cfg |-> IF args[k] # Undefined THEN args[k] ELSE cfg[k]]

\* cli.ts line 482: parsedArgs.yes ?? currentConfig.yes
Proceed(args, cfg) ==
  Truthy(IF args.yes \in {Undefined, Null} THEN cfg["yes"] ELSE args.yes)

\* a failed git command reported but not thrown
GitCommandThrowsNever(success) == FALSE

\* git_helpers.ts lines 51-57: runGitCommand throws when the command failed
GitCommandThrows(success) == ~success

\* github_api.ts lines 65-71 and 89-92: createPullRequest throws when the
\* response is not ok
ApiThrows(responseOk) == ~responseOk

\* A console line is the sequence of the literal parts and interpolated
\* values it is made of.
Contains(line, str) == \E i \in 1..Len(line) : line[i] = str

\* currentConfig.githubToken, undefined for a configuration without that key
TokenOf(cfg) == IF "githubToken" \in DOMAIN cfg THEN cfg["githubToken"] ELSE Undefined

\* cli.ts line 495: the token line of the configuration summary
SummaryLine(cfg) ==
  <<"  GitHub Token:  ", IF Truthy(TokenOf(cfg)) THEN "********" ELSE "(not set)">>

\* git_helpers.ts lines 86-88: repoUrl
RepoUrl(org, repo, githubToken) ==
  IF Truthy(githubToken)
    THEN <<"https://oauth2:", githubToken[2], "@github.com/", org[2], "/", repo[2], ".git">>
    ELSE <<"https://github.com/", org[2], "/", repo[2], ".git">>

\* git_helpers.ts lines 41, 54, 100: the lines checkoutRevision and
\* runGitCommand write for the clone
CheckoutLines(cfg, madeOk, cloneOk) ==
  LET repoUrl == RepoUrl(cfg["githubOrg"], cfg["repoName"], TokenOf(cfg))
  IN IF ~madeOk THEN {}
     ELSE {<<"Cloning ">> \o repoUrl,
           <<"Running: git clone --depth 1 --branch ">> \o repoUrl} \cup
          (IF GitCommandThrows(cloneOk)
             THEN {<<"Git command failed: git clone --depth 1 --branch ">> \o repoUrl}
             ELSE {})

\* A string is the sequence of its characters where its characters matter
\* (titles, branch names); a character outside ASCII is named by its code point.
LowercaseLetters ==
  {"a", "b", "c", "d", "e", "f", "g", "h", "i", "j", "k", "l", "m",
   "n", "o", "p", "q", "r", "s", "t", "u", "v", "w", "x", "y", "z"}

DecimalDigits == <<"0", "1", "2", "3", "4", "5", "6", "7", "8", "9">>

\* the upper-case letters that occur in the titles of the model
UpperToLower == [A |-> "a", B |-> "b", P |-> "p", R |-> "r"]

\* String.prototype.toLowerCase, one character
LowerChar(ch) == IF ch \in DOMAIN UpperToLower THEN UpperToLower[ch] ELSE ch

\* cli.ts line 601: prTitle.toLowerCase()
ToLowerCase(str) == [i \in 1..Len(str) |-> LowerChar(str[i])]

\* the class \s of a regular expression: space, tab, ideographic space, ...
IsWhitespace(ch) == ch \in {" ", "U+0009", "U+3000"}

RECURSIVE SkipWhitespace(_)
SkipWhitespace(str) ==
  IF str # <<>> /\ IsWhitespace(Head(str)) THEN SkipWhitespace(Tail(str)) ELSE str

\* cli.ts line 601: .replace(/\s+/g, '-'), each run of whitespace becomes
\* one hyphen
RECURSIVE ReplaceWhitespaceRuns(_)
ReplaceWhitespaceRuns(str) ==
  IF str = <<>> THEN <<>>
  ELSE IF IsWhitespace(Head(str))
    THEN <<"-">> \o ReplaceWhitespaceRuns(SkipWhitespace(Tail(str)))
    ELSE <<Head(str)>> \o ReplaceWhitespaceRuns(Tail(str))

\* the class [a-z0-9-]
IsBranchChar(ch) ==
  ch \in LowercaseLetters \/ ch \in {DecimalDigits[i] : i \in 1..10} \/ ch = "-"

\* cli.ts line 601: .replace(/[^a-z0-9-]/g, '')
RemoveOtherChars(str) == SelectSeq(str, IsBranchChar)

\* cli.ts line 602: 'automated-pr'
AutomatedPr == <<"a", "u", "t", "o", "m", "a", "t", "e", "d", "-", "p", "r">>

\* cli.ts lines 601-602: the branch name derived from the title;
\* `x || 'automated-pr'` takes the default when x is the empty string
DeriveBranchName(prTitle) ==
  LET cleaned == RemoveOtherChars(ReplaceWhitespaceRuns(ToLowerCase(prTitle)))
  IN IF cleaned = <<>> THEN AutomatedPr ELSE cleaned

\* the characters of the strings a title takes in a runCli call of the model
Characters(str) ==
  CASE str = "Automated PR" ->
         <<"A", "u", "t", "o", "m", "a", "t", "e", "d", " ", "P", "R">>
    [] str = "" -> <<>>

\* cli.ts lines 601-602: desiredBranchName of a runCli call; the title is the
\* default 'Automated PR'
DesiredBranchName(cfg) == DeriveBranchName(Characters("Automated PR"))

\* the decimal digits of a counter, as `${counter}` writes them
RECURSIVE CounterDigits(_)
CounterDigits(n) ==
  IF n < 10 THEN <<DecimalDigits[n + 1]>>
  ELSE CounterDigits(n \div 10) \o <<DecimalDigits[(n % 10) + 1]>>

\* git_helpers.ts lines 164 and 171: desiredBranchName, then
\* `${desiredBranchName}-${counter}`
CandidateName(desired, counter) ==
  IF counter = 0 THEN desired ELSE desired \o <<"-">> \o CounterDigits(counter)

\* git_helpers.ts lines 136-153: remoteBranchExists; success is the outcome
\* of `git ls-remote --heads origin <name>`, whose failure counts as "no
\* such branch" (line 150)
remoteBranchExists(branchName, branches, success) ==
  success /\ branchName \in branches

\* no `git ls-remote` of a createUniqueBranch call fails
NoFailure == -1

\* git_helpers.ts lines 164-173: the loop of createUniqueBranch from a value
\* of counter; failAt is the iteration whose ls-remote fails (NoFailure: none)
RECURSIVE UniqueBranchFrom(_, _, _, _)
UniqueBranchFrom(desired, counter, branches, failAt) ==
  IF remoteBranchExists(CandidateName(desired, counter), branches, counter # failAt)
    THEN UniqueBranchFrom(desired, counter + 1, branches, failAt)
    ELSE CandidateName(desired, counter)

\* git_helpers.ts lines 162-180: the name createUniqueBranch returns
createUniqueBranch(desired, branches, failAt) ==
  UniqueBranchFrom(desired, 0, branches, failAt)

\* the error of a failed step thrown on to the caller of runCli
CaughtRethrows(c, errorMessage) ==
  [c EXCEPT !.result = [exitCode |-> 1, prUrl |-> <<>>, error |-> errorMessage],
            !.pc = "threw"]

\* the temporary directory left where checkoutRevision made it when the
\* clone fails
checkoutRevisionKeepsDir(madeOk, cloneOk, removed) ==
  [threw |-> ~madeOk \/ GitCommandThrows(cloneOk),
   tempDir |-> IF madeOk THEN "made" ELSE "none"]

\* git_helpers.ts lines 78-127: checkoutRevision. Deno.makeTempDir makes the
\* directory or throws (line 92); when the clone throws, the catch block
\* tries to remove the directory, logs a failure to do so, and rethrows
\* (lines 112-126)
checkoutRevision(madeOk, cloneOk, removed) ==
  [threw |-> ~madeOk \/ GitCommandThrows(cloneOk),
   tempDir |-> IF ~madeOk THEN "none"
               ELSE IF GitCommandThrows(cloneOk)
                 THEN (IF removed THEN "removed" ELSE "removeFailed")
               ELSE "made"]

\* cli.ts lines 645-673: the catch block returns exit code 1 with the error
\* message; the finally block cleans up when a checkout directory exists
Caught(c, errorMessage) ==
  [c EXCEPT !.result = [exitCode |-> 1, prUrl |-> <<>>, error |-> errorMessage],
            !.pc = IF c.tempCheckoutDir # "" THEN "cleanup" ELSE "returned"]

\* cli.ts lines 586-644: what a workflow step leaves in runCli's locals: the
\* step is recorded, and control goes to the next step or to the catch block
StepDone(c, step, ok, threw, next) ==
  IF threw
    THEN Caught([c EXCEPT !.steps = Append(@, [step |-> step, ok |-> ok])], step)
    ELSE [c EXCEPT !.steps = Append(@, [step |-> step, ok |-> ok]), !.pc = next]

----------------------------------------------------------------------------
(* Inputs *)

\* the schemas the engine is exercised with on its own
SchemaIds == {"prmaker", "example"}

SchemaKeys(sid) == DOMAIN Schemas[sid]

\* a key of an older version of the schema, still in the persisted file
StaleKey == "stale"

\* keys a caller may pass to set: schema keys, and keys outside the schema
SetKeys(sid) == SchemaKeys(sid) \cup {"unknownKey", "toString"}

DefaultOf(sid, key) == UnwrapValue(Schemas[sid][key])

\* values of a base type a caller may store or override with
ValuesOfType(t) ==
  CASE t = "string"  -> {Str(""), Str("world")}
    [] t = "number"  -> {Num("0"), Num("456"), Num("Infinity")}
    [] t = "boolean" -> {Bool("true"), Bool("false")}

SetValues(sid, key) ==
  IF key \in SchemaKeys(sid) THEN ValuesOfType(TypeOf(DefaultOf(sid, key)))
  ELSE {Str("some value")}

OverrideValueOfType(t) ==
  CASE t = "string"  -> Str("fromoverride")
    [] t = "number"  -> Num("7")
    [] t = "boolean" -> Bool("true")

NoOverrides == [given |-> FALSE, obj |-> EmptyObject]

FirstKey(sid) == SchemaOrder[sid][1]
LastKey(sid)  == SchemaOrder[sid][Len(SchemaOrder[sid])]

OverrideOf(key, value) == [given |-> TRUE, obj |-> [x \in {key} |-> value]]

\* overrideConfig: absent, or a partial object with one key (whose value may
\* be undefined, as Partial<T> allows)
Overrides(sid) ==
  {NoOverrides,
   OverrideOf(FirstKey(sid), Undefined),
   OverrideOf(FirstKey(sid), OverrideValueOfType(TypeOf(DefaultOf(sid, FirstKey(sid))))),
   OverrideOf(LastKey(sid), OverrideValueOfType(TypeOf(DefaultOf(sid, LastKey(sid)))))}

EnvNameOf(sid, key) == EntryOptions(Schemas[sid][key]).envOverride

\* keys of the schema that declare envOverride
EnvKeys(sid) == {k \in SchemaKeys(sid) : EnvNameOf(sid, k) # ""}

NoEnv == [n \in {} |-> Undefined]

\* the environment: no variable of the schema set, one of them set to a
\* value, or one of them set to the empty string
Envs(sid) ==
  {NoEnv} \cup
  {[x \in {EnvNameOf(sid, k)} |-> Str("fromenv")] : k \in EnvKeys(sid)} \cup
  {[x \in {EnvNameOf(sid, CHOOSE k \in EnvKeys(sid) : TRUE)} |-> Str("")]}

\* what the terminal prompt returns: null (cancelled), or the typed line
TerminalAnswers == {Null, Str(""), Str("typed")}

ScriptedAnswers == {Str(""), Str("scripted")}

WriteOutcomes == {"ok", "denied"}

FileOf(st, content) == [state |-> st, content |-> content]

FromFileOfType(t) ==
  CASE t = "string"  -> Str("fromfile")
    [] t = "number"  -> Num("99")
    [] t = "boolean" -> Bool("true")

\* persisted files found at start: none, unreadable, not JSON, or an object
\* holding no key, one schema key, or every schema key and a stale one
InitialFiles(sid) ==
  {FileOf("absent", EmptyObject), FileOf("unreadable", EmptyObject),
   FileOf("corrupt", EmptyObject), FileOf("ok", EmptyObject)} \cup
  {FileOf("ok", [x \in {k} |-> FromFileOfType(TypeOf(DefaultOf(sid, k)))]) :
     k \in SchemaKeys(sid)} \cup
  {FileOf("ok", [x \in SchemaKeys(sid) \cup {StaleKey} |->
     IF x = StaleKey THEN Str("old")
     ELSE FromFileOfType(TypeOf(DefaultOf(sid, x)))])}

----------------------------------------------------------------------------
(* State machine *)

NoHandle == [status |-> "none", base |-> BaseRef, cur |-> BaseRef]

NoOp == [op |-> "none", outcome |-> "none", key |-> "", value |-> Undefined,
         wrote |-> FALSE, prompts |-> 0]

\* a Linux account with HOME set and no XDG_CONFIG_HOME
HomePlatform ==
  [os |-> "linux",
   env |-> [APPDATA |-> Undefined, HOME |-> Str("/home/u"),
            XDG_CONFIG_HOME |-> Undefined]]

\* no getConfigPath call made yet, no directory made
NoPath == [status |-> "none", appId |-> "", path |-> NoDir, dirs |-> {}]

\* what a getConfigPath call leaves: its result, and the directory ensureDir
\* made (line 139) when it did not throw
PathAfter(r, appId) ==
  [status |-> r.status, appId |-> appId, path |-> r.path,
   dirs |-> IF r.status = "ok" THEN configPath.dirs \cup {r.dir} ELSE configPath.dirs]

\* a parsed argument list with nothing given: declared booleans are false,
\* declared strings are undefined
NoArgs == [help |-> Bool("false"), yes |-> Bool("false"), dryRun |-> Bool("false"),
           githubOrg |-> Undefined, repoName |-> Undefined]

NoResult == [exitCode |-> -1, prUrl |-> <<>>, error |-> ""]

\* no runCli call made yet
NoCli ==
  [pc |-> "idle", args |-> NoArgs, cfg |-> EmptyObject, tempCheckoutDir |-> "",
   tempDir |-> "none", newBranchName |-> <<>>, result |-> NoResult, steps |-> <<>>,
   prompts |-> 0, wrote |-> FALSE, runs |-> 0]

\* a remote repository without pushed branches and pull requests
NoRemote == [branches |-> {}, prs |-> {}]

\* the workflow runs a server process can have in progress at once
FlowIds == {"f1", "f2"}

\* a workflow run not started
NoFlow == [pc |-> "off", prTitle |-> <<>>, desiredBranchName |-> <<>>,
           counter |-> 0, newBranchName |-> <<>>, commit |-> "none", pushed |-> "no"]

NoFlows == [f \in FlowIds |-> NoFlow]

\* no request received yet, no response sent
NoServer == [pc |-> "idle", status |-> 0, token |-> Undefined]

HandleIds == {"h1", "h2"}

\* a handle not made yet: m is the memory its initConfig call will start in
NoWriter(m) == [handle |-> NoHandle, mem |-> m, busy |-> FALSE, arg |-> EmptyObject]

\* the outcome of Deno.writeTextFile in the current state of the disk
WriteOutcome == IF disk = "ok" THEN "ok" ELSE "denied"

Init ==
  /\ schemaId \in SchemaIds
  /\ mem = [schema |-> Schemas[schemaId], base |-> EmptyObject, work |-> EmptyObject]
  /\ file \in InitialFiles(schemaId)
  /\ handle = NoHandle
  /\ promptHistory = <<>>
  /\ scripted = <<>>
  /\ disk \in {"ok", "failing"}
  /\ last = NoOp
  /\ platform = HomePlatform
  /\ configPath = NoPath
  /\ writers = [h \in HandleIds |-> NoWriter(mem)]
  /\ lastWriter = "none"
  /\ cli = NoCli
  /\ remote = NoRemote
  /\ flows = NoFlows
  /\ server = NoServer
  /\ log = {}

\* a call of initConfig(appId, defaultConfig, overrideConfig) with the given
\* prompt driver
InitConfigWith(driver, overrides) ==
  \E ov \in overrides, env \in Envs(schemaId), term \in TerminalAnswers :
    \E p \in {getConfigPath(platform, AppId)} :
      \E r \in {InitConfigRun(schemaId, mem, file, promptHistory, scripted,
                               driver, ov, env, term, WriteOutcome)} :
        /\ configPath' = PathAfter(p, AppId)
        /\ UNCHANGED <<schemaId, disk, platform, raceVars, cliVars, flowVars, serverVars>>
        /\ IF p.status = "throws"
             THEN \* line 176: getConfigPath threw, nothing else was done
               /\ handle' = NoHandle
               /\ last' = [op |-> "init", outcome |-> "ConfigDirectoryUndeterminable",
                           key |-> "none", value |-> Undefined, wrote |-> FALSE,
                           prompts |-> 0]
               /\ UNCHANGED <<mem, file, promptHistory, scripted>>
             ELSE
               /\ Len(r.hist) <= MaxHistory
               /\ mem' = r.mem
               /\ file' = r.file
               /\ promptHistory' = r.hist
               /\ scripted' = r.queue
               /\ handle' = IF r.outcome = "ok"
                              THEN [status |-> "ready", base |-> BaseRef, cur |-> r.cur]
                              ELSE NoHandle
               /\ last' = [op |-> "init", outcome |-> r.outcome, key |-> r.errKey,
                           value |-> Undefined, wrote |-> r.wrote,
                           prompts |-> Len(r.fired)]

\* initConfig as the source has it: prompts go to the terminal
InitConfig == InitConfigWith("terminal", Overrides(schemaId))

\* a call of handle.set(key, value)
Set ==
  /\ handle.status = "ready"
  /\ \E key \in SetKeys(schemaId) :
       \E value \in SetValues(schemaId, key) :
         \E r \in {SetRun(mem, handle, file, key, value, WriteOutcome)} :
            /\ mem' = r.mem
            /\ file' = r.file
            /\ last' = [op |-> "set", outcome |-> r.outcome, key |-> key,
                        value |-> value, wrote |-> r.wrote, prompts |-> 0]
            /\ UNCHANGED <<schemaId, handle, promptHistory, scripted, disk>>
            /\ UNCHANGED <<pathVars, raceVars, cliVars, flowVars, serverVars>>

\* the cause of the write failures goes away (permissions fixed, space freed)
DiskRecovers ==
  /\ disk = "failing"
  /\ disk' = "ok"
  /\ UNCHANGED <<schemaId, mem, file, handle, promptHistory, scripted, last>>
  /\ UNCHANGED <<pathVars, raceVars, cliVars, flowVars, serverVars>>

Next == InitConfig \/ Set \/ DiskRecovers

Spec == Init /\ [][Next]_vars

SnapshotAccessors == {"toJSON", "customInspect"}

\* the caller takes the object an accessor of the handle returns and assigns
\* one of its properties
CallerAssigns ==
  /\ handle.status = "ready"
  /\ \E accessor \in SnapshotAccessors :
       \E ref \in {ReturnedRef(handle, accessor)} :
         /\ mem' = IF ref \in DOMAIN mem
                      THEN [mem EXCEPT ![ref] = PutProp(@, FirstKey(schemaId), Str("assigned"))]
                      ELSE mem
         /\ last' = [op |-> accessor, outcome |-> "ok", key |-> FirstKey(schemaId),
                     value |-> Str("assigned"), wrote |-> FALSE, prompts |-> 0]
         /\ UNCHANGED <<schemaId, file, handle, promptHistory, scripted, disk>>
         /\ UNCHANGED <<pathVars, raceVars, cliVars, flowVars, serverVars>>

NextCaller == InitConfig \/ Set \/ DiskRecovers \/ CallerAssigns

\* the handle used by a caller that also keeps what the accessors return
SpecCaller == Init /\ [][NextCaller]_vars

\* application identities a caller may pass
AppIds == {AppId, "test-app"}

OSes == {"windows", "darwin", "linux", "freebsd"}

\* a directory variable is unset, set to the empty string, or set to a path
DirValues(name) == {Undefined, Str(""), Str(name)}

Platforms ==
  {[os |-> o, env |-> [APPDATA |-> a, HOME |-> h, XDG_CONFIG_HOME |-> x]] :
     <<o, a, h, x>> \in OSes \X DirValues("C:/Users/u/AppData/Roaming")
                        \X DirValues("/home/u") \X DirValues("/home/u/.xdg")}

\* a call of getConfigPath(appId)
GetConfigPath ==
  /\ \E appId \in AppIds :
       configPath' = PathAfter(getConfigPath(platform, appId), appId)
  /\ UNCHANGED <<configVars, platform, raceVars, cliVars, flowVars, serverVars>>

\* the engine started on any platform, without a persisted file
InitPath ==
  /\ schemaId = "prmaker"
  /\ mem = [schema |-> Schemas[schemaId], base |-> EmptyObject, work |-> EmptyObject]
  /\ file = FileOf("absent", EmptyObject)
  /\ handle = NoHandle
  /\ promptHistory = <<>>
  /\ scripted = <<>>
  /\ disk = "ok"
  /\ last = NoOp
  /\ platform \in Platforms
  /\ configPath = NoPath
  /\ writers = [h \in HandleIds |-> NoWriter(mem)]
  /\ lastWriter = "none"
  /\ cli = NoCli
  /\ remote = NoRemote
  /\ flows = NoFlows
  /\ server = NoServer
  /\ log = {}

\* initConfig(appId, defaultConfig), without overrides
InitConfigNoOverrides == InitConfigWith("terminal", {NoOverrides})

NextPath == GetConfigPath \/ InitConfigNoOverrides

SpecPath == InitPath /\ [][NextPath]_vars

\* the two keys the racing callers set, and the value stored for each
RaceKeys(sid) == {FirstKey(sid), LastKey(sid)}

RaceValue(sid, key) ==
  CASE TypeOf(DefaultOf(sid, key)) = "string"  -> Str("world")
    [] TypeOf(DefaultOf(sid, key)) = "number"  -> Num("456")
    [] TypeOf(DefaultOf(sid, key)) = "boolean" -> Bool("true")

\* initConfig(appId, defaultConfig) made for handle h; it reads the shared
\* file and writes it when a prompt fired
RaceInitConfig(h) ==
  /\ ~writers[h].busy
  /\ \E term \in TerminalAnswers :
       \E r \in {InitConfigRun(schemaId, writers[h].mem, file, <<>>, <<>>,
                                "terminal", NoOverrides, NoEnv, term, WriteOutcome)} :
         /\ writers' = [writers EXCEPT ![h] =
               [handle |-> IF r.outcome = "ok"
                             THEN [status |-> "ready", base |-> BaseRef, cur |-> r.cur]
                             ELSE NoHandle,
                mem |-> r.mem, busy |-> FALSE, arg |-> EmptyObject]]
         /\ file' = r.file
         /\ lastWriter' = IF r.wrote THEN h ELSE lastWriter
  /\ UNCHANGED <<schemaId, mem, handle, promptHistory, scripted, disk, last, pathVars>>
  /\ UNCHANGED <<cliVars, flowVars, serverVars>>

\* set(key, value) on handle h up to its await: the key test and the
\* assignment (lines 331-335), then saveConfig serializes the snapshot and
\* starts the write (lines 299-300), which completes later
RaceSetBegins(h) ==
  /\ writers[h].handle.status = "ready"
  /\ ~writers[h].busy
  /\ \E key \in RaceKeys(schemaId) :
       \E r \in {SetRun(writers[h].mem, writers[h].handle, file, key,
                         RaceValue(schemaId, key), "ok")} :
         /\ r.outcome = "ok"
         /\ writers' = [writers EXCEPT ![h].mem = r.mem, ![h].busy = TRUE,
                                       ![h].arg = r.mem[writers[h].handle.cur]]
  /\ UNCHANGED <<configVars, pathVars, lastWriter, cliVars, flowVars, serverVars>>

\* the write started by handle h's set completes (line 300), and set returns
RaceWriteCompletes(h) ==
  /\ writers[h].busy
  /\ \E sv \in {saveConfig(writers[h].arg, file, WriteOutcome)} :
       /\ file' = sv.file
       /\ lastWriter' = IF sv.threw THEN lastWriter ELSE h
  /\ writers' = [writers EXCEPT ![h].busy = FALSE, ![h].arg = EmptyObject]
  /\ UNCHANGED <<schemaId, mem, handle, promptHistory, scripted, disk, last, pathVars>>
  /\ UNCHANGED <<cliVars, flowVars, serverVars>>

\* two callers of the same appId start with the same schema and file
InitRace ==
  /\ schemaId \in SchemaIds
  /\ mem = [schema |-> Schemas[schemaId], base |-> EmptyObject, work |-> EmptyObject]
  /\ file \in InitialFiles(schemaId)
  /\ handle = NoHandle
  /\ promptHistory = <<>>
  /\ scripted = <<>>
  /\ disk = "ok"
  /\ last = NoOp
  /\ platform = HomePlatform
  /\ configPath = NoPath
  /\ writers = [h \in HandleIds |-> NoWriter(mem)]
  /\ lastWriter = "none"
  /\ cli = NoCli
  /\ remote = NoRemote
  /\ flows = NoFlows
  /\ server = NoServer
  /\ log = {}

NextRace ==
  \E h \in HandleIds : RaceInitConfig(h) \/ RaceSetBegins(h) \/ RaceWriteCompletes(h)

SpecRace == InitRace /\ [][NextRace]_vars

\* initConfig with the prompt driver the tests use, called as the prompt
\* tests call it: initConfig(testAppId, prMakerDefaultConfig)
InitConfigRecording == InitConfigWith("recording", {NoOverrides})

\* the tests queue a scripted answer: initConfigScriptedUserInputs.push(a)
PushScripted ==
  /\ Len(scripted) < MaxScripted
  /\ \E a \in ScriptedAnswers : scripted' = Append(scripted, a)
  /\ UNCHANGED <<schemaId, mem, file, handle, promptHistory, disk, last>>
  /\ UNCHANGED <<pathVars, raceVars, cliVars, flowVars, serverVars>>

\* the tests clear both: initConfigPromptHistory.length = 0 and
\* initConfigScriptedUserInputs.length = 0
ClearPromptState ==
  /\ promptHistory # <<>> \/ scripted # <<>>
  /\ promptHistory' = <<>>
  /\ scripted' = <<>>
  /\ UNCHANGED <<schemaId, mem, file, handle, disk, last>>
  /\ UNCHANGED <<pathVars, raceVars, cliVars, flowVars, serverVars>>

\* the test scenarios start without a persisted file
InitPrompt ==
  /\ schemaId \in SchemaIds
  /\ mem = [schema |-> Schemas[schemaId], base |-> EmptyObject, work |-> EmptyObject]
  /\ file = FileOf("absent", EmptyObject)
  /\ handle = NoHandle
  /\ promptHistory = <<>>
  /\ scripted = <<>>
  /\ disk = "ok"
  /\ last = NoOp
  /\ platform = HomePlatform
  /\ configPath = NoPath
  /\ writers = [h \in HandleIds |-> NoWriter(mem)]
  /\ lastWriter = "none"
  /\ cli = NoCli
  /\ remote = NoRemote
  /\ flows = NoFlows
  /\ server = NoServer
  /\ log = {}

NextPrompt == InitConfigRecording \/ PushScripted \/ ClearPromptState

SpecPrompt == InitPrompt /\ [][NextPrompt]_vars

NextSet == InitConfigRecording \/ Set

\* a handle made while prompts are recorded, then used for set calls
SpecSet == InitPrompt /\ [][NextSet]_vars

----------------------------------------------------------------------------
(* runCli: one action per stretch of code between two awaits *)

Booleans == {Bool("true"), Bool("false")}

\* parseArgs results: --help, --yes, --dryRun given or not, --githubOrg given
\* or not, --repoName given
CliArgs ==
  [help : Booleans, yes : Booleans, dryRun : Booleans,
   githubOrg : {Undefined, Str("acme")}, repoName : {Str("repo")}]

\* the locals of a runCli call that has parsed args and called initConfig;
\* r is the run of that initConfig call
CliStarted(args, r) ==
  [NoCli EXCEPT !.runs = cli.runs + 1, !.args = args,
                !.prompts = Len(r.fired), !.wrote = r.wrote]

\* cli.ts lines 420-482: runCli from its start to the confirmation loop, for
\* an argument list of argsSet
RunCliStartsWith(argsSet) ==
  /\ cli.pc \in {"idle", "returned", "threw"}
  /\ cli.runs < MaxRuns
  /\ \E args \in argsSet, term \in TerminalAnswers :
       \E p \in {getConfigPath(platform, AppId)} :
         \E r \in {IF HelpRequested(args)
                     THEN InitConfigRun("empty", [mem EXCEPT !["schema"] = EmptyObject],
                                        file, promptHistory, scripted, "terminal",
                                        EmptyOverrides, NoEnv, term, WriteOutcome)
                     ELSE InitConfigRun(schemaId, mem, file, promptHistory, scripted,
                                        "terminal", CliOverrides(args), NoEnv, term,
                                        WriteOutcome)} :
           /\ configPath' = PathAfter(p, AppId)
           /\ IF p.status = "throws"
                THEN \* initConfig rejects at line 176, and so does runCli
                  /\ cli' = [CliStarted(args, r) EXCEPT !.pc = "threw",
                                !.prompts = 0, !.wrote = FALSE]
                  /\ UNCHANGED <<mem, file, handle, last>>
                ELSE IF HelpRequested(args)
                THEN \* lines 429-446: usage, the config path, return 0
                  /\ cli' = [CliStarted(args, r) EXCEPT
                                !.pc = IF r.outcome = "ok" THEN "returned" ELSE "threw",
                                !.result = IF r.outcome = "ok"
                                             THEN [exitCode |-> 0, prUrl |-> <<>>, error |-> ""]
                                             ELSE NoResult]
                  /\ file' = r.file
                  /\ UNCHANGED <<mem, handle, last>>
                ELSE \* lines 448-482
                  /\ mem' = r.mem
                  /\ file' = r.file
                  /\ handle' = IF r.outcome = "ok"
                                 THEN [status |-> "ready", base |-> BaseRef, cur |-> r.cur]
                                 ELSE NoHandle
                  /\ last' = [op |-> "init", outcome |-> r.outcome, key |-> r.errKey,
                              value |-> Undefined, wrote |-> r.wrote,
                              prompts |-> Len(r.fired)]
                  /\ cli' =
                       IF r.outcome # "ok" THEN [CliStarted(args, r) EXCEPT !.pc = "threw"]
                       ELSE LET cfg == CliApplyArgs(
                                         CliConfigFromHandle(r.mem,
                                           [status |-> "ready", base |-> BaseRef,
                                            cur |-> r.cur]), args)
                            IN [CliStarted(args, r) EXCEPT
                                  !.cfg = cfg,
                                  !.pc = IF Proceed(args, cfg) THEN "checkout"
                                         ELSE "confirm"]
  /\ UNCHANGED <<schemaId, promptHistory, scripted, disk, platform, raceVars, remote, flowVars>>

\* runCli started from the command line
RunCliStarts == RunCliStartsWith(CliArgs) /\ UNCHANGED serverVars

\* the settings the change menu is used for
ChangeKeys == {"yes", "dryRun"}

\* cli.ts lines 485-581: one iteration of the confirmation loop
RunCliConfirms ==
  /\ cli.pc = "confirm"
  /\ IF Truthy(cli.cfg["yes"])
       THEN \* line 499: nothing is asked and proceed stays false
         UNCHANGED <<cli, mem, file, last>>
       ELSE
         \E action \in {"continue", "change", "exit"} :
           CASE action = "continue" ->
                  /\ cli' = [cli EXCEPT !.pc = "checkout"]
                  /\ UNCHANGED <<mem, file, last>>
             [] action = "exit" ->
                  /\ cli' = [cli EXCEPT !.pc = "returned",
                               !.result = [exitCode |-> 1, prUrl |-> <<>>,
                                           error |-> "User exited configuration."]]
                  /\ UNCHANGED <<mem, file, last>>
             [] action = "change" ->
                  \E keyToChange \in ChangeKeys \cup {"done"}, newValue \in Booleans :
                    IF keyToChange = "done"
                      THEN UNCHANGED <<cli, mem, file, last>>
                      ELSE \* lines 559-577: set, then read back on success
                        \E r \in {SetRun(mem, handle, file, keyToChange, newValue,
                                          WriteOutcome)} :
                          /\ mem' = r.mem
                          /\ file' = r.file
                          /\ last' = [op |-> "set", outcome |-> r.outcome,
                                      key |-> keyToChange, value |-> newValue,
                                      wrote |-> r.wrote, prompts |-> 0]
                          /\ cli' = IF r.outcome = "ok"
                                      THEN [cli EXCEPT !.cfg[keyToChange] =
                                              Get(r.mem, handle, keyToChange)]
                                      ELSE cli
  /\ log' = log \cup {SummaryLine(cli.cfg)}
  /\ UNCHANGED <<schemaId, handle, promptHistory, scripted, disk, pathVars, raceVars, remote, flowVars, server>>

\* cli.ts lines 589-597: checkoutRevision called; tempCheckoutDir is assigned
\* when it returns
RunCliCheckout ==
  /\ cli.pc = "checkout"
  /\ \E madeOk \in BOOLEAN, cloneOk \in BOOLEAN :
       \E removed \in (IF madeOk /\ ~cloneOk THEN BOOLEAN ELSE {TRUE}) :
       \E r \in {checkoutRevision(madeOk, cloneOk, removed)} :
         /\ cli' = IF r.threw
                     THEN [StepDone(cli, "checkout", madeOk /\ cloneOk, TRUE, "branch")
                             EXCEPT !.tempDir = r.tempDir]
                     ELSE [StepDone(cli, "checkout", TRUE, FALSE, "branch")
                             EXCEPT !.tempCheckoutDir = "tmp", !.tempDir = r.tempDir]
         /\ log' = log \cup CheckoutLines(cli.cfg, madeOk, cloneOk)
  /\ UNCHANGED <<configVars, pathVars, raceVars, remote, flowVars, server>>

\* cli.ts lines 599-605 and git_helpers.ts lines 162-180: createUniqueBranch
RunCliCreateBranch ==
  /\ cli.pc = "branch"
  /\ \E checkoutOk \in BOOLEAN, failAt \in {NoFailure, 0, 1} :
       cli' = IF GitCommandThrows(checkoutOk)
                THEN StepDone(cli, "branch", checkoutOk, TRUE, "apply")
                ELSE [StepDone(cli, "branch", checkoutOk, FALSE, "apply")
                        EXCEPT !.newBranchName =
                          createUniqueBranch(DesiredBranchName(cli.cfg), remote.branches,
                                             failAt)]
  /\ UNCHANGED <<configVars, pathVars, raceVars, remote, flowVars, serverVars>>

\* cli.ts lines 607-615: applyProposedChanges, which throws when it fails
RunCliApply ==
  /\ cli.pc = "apply"
  /\ \E applied \in BOOLEAN :
       cli' = StepDone(cli, "apply", applied, ~applied, "commit")
  /\ UNCHANGED <<configVars, pathVars, raceVars, remote, flowVars, serverVars>>

\* cli.ts lines 617-620 and git_helpers.ts lines 188-195: commitChanges
RunCliCommit ==
  /\ cli.pc = "commit"
  /\ \E commitOk \in BOOLEAN :
       cli' = StepDone(cli, "commit", commitOk, GitCommandThrows(commitOk), "push")
  /\ UNCHANGED <<configVars, pathVars, raceVars, remote, flowVars, serverVars>>

\* cli.ts lines 622-624 and git_helpers.ts lines 203-209: pushBranch
RunCliPush ==
  /\ cli.pc = "push"
  /\ \E pushOk \in BOOLEAN :
       /\ cli' = StepDone(cli, "push", pushOk, GitCommandThrows(pushOk), "createPr")
       /\ remote' = IF pushOk
                       THEN [remote EXCEPT !.branches = @ \cup {cli.newBranchName}]
                       ELSE remote
  /\ UNCHANGED <<configVars, pathVars, raceVars, flowVars, serverVars>>

\* the URL of the pull request made for a head branch
PrUrl(head) == <<"pull", head>>

\* cli.ts lines 626-643 and github_api.ts lines 32-93: createPullRequest
RunCliCreatePr ==
  /\ cli.pc = "createPr"
  /\ \E responseOk \in BOOLEAN :
       /\ cli' = IF ApiThrows(responseOk)
                    THEN StepDone(cli, "createPr", responseOk, TRUE, "cleanup")
                    ELSE [StepDone(cli, "createPr", responseOk, FALSE, "cleanup")
                            EXCEPT !.result = [exitCode |-> 0,
                                               prUrl |-> PrUrl(cli.newBranchName),
                                               error |-> ""]]
       /\ remote' = IF responseOk
                       THEN [remote EXCEPT !.prs = @ \cup {[head |-> cli.newBranchName]}]
                       ELSE remote
  /\ UNCHANGED <<configVars, pathVars, raceVars, flowVars, serverVars>>

\* cli.ts lines 657-673: the finally block removes the checkout directory;
\* a failure to remove it is logged
RunCliCleanup ==
  /\ cli.pc = "cleanup"
  /\ \E removed \in BOOLEAN :
       cli' = [cli EXCEPT !.pc = "returned",
                          !.tempCheckoutDir = IF removed THEN "" ELSE @,
                          !.tempDir = IF removed THEN "removed" ELSE "removeFailed"]
  /\ UNCHANGED <<configVars, pathVars, raceVars, remote, flowVars, serverVars>>

\* persisted files runCli may find
CliFiles ==
  {FileOf("absent", EmptyObject), FileOf("corrupt", EmptyObject),
   FileOf("ok", [githubOrg |-> Str("fromfile"), repoName |-> Str("fromfile"),
                 yes |-> Bool("true"), dryRun |-> Bool("true")])}

InitCli ==
  /\ schemaId = "cli"
  /\ mem = [schema |-> Schemas[schemaId], base |-> EmptyObject, work |-> EmptyObject]
  /\ file \in CliFiles
  /\ handle = NoHandle
  /\ promptHistory = <<>>
  /\ scripted = <<>>
  /\ disk \in {"ok", "failing"}
  /\ last = NoOp
  /\ platform = HomePlatform
  /\ configPath = NoPath
  /\ writers = [h \in HandleIds |-> NoWriter(mem)]
  /\ lastWriter = "none"
  /\ cli = NoCli
  /\ remote = NoRemote
  /\ flows = NoFlows
  /\ server = NoServer
  /\ log = {}

NextCli ==
  \/ RunCliStarts \/ RunCliConfirms \/ RunCliCheckout \/ RunCliCreateBranch
  \/ RunCliApply \/ RunCliCommit \/ RunCliPush \/ RunCliCreatePr
  \/ RunCliCleanup

SpecCli == InitCli /\ [][NextCli]_vars

----------------------------------------------------------------------------
(* Workflow runs served at once by one server process: the part of runCli   *)
(* that names, creates and pushes the branch, one action per stretch of     *)
(* code between two awaits.                                                  *)

\* characters a title is made of: a lowercase letter, an uppercase letter, a
\* digit, a hyphen, a space, another ASCII character, a character outside ASCII
TitleAlphabet == {"a", "B", "1", "-", " ", "_", "U+65E5"}

\* titles of at most MaxTitleLen characters
Titles == UNION {[1..n -> TitleAlphabet] : n \in 0..MaxTitleLen}

\* a workflow run that has cloned the repository and is about to name its branch
FlowStarted(prTitle) == [NoFlow EXCEPT !.pc = "derive", !.prTitle = prTitle]

\* cli.ts lines 599-602 and git_helpers.ts lines 164-165: desiredBranchName,
\* then branchName and counter at the entry of createUniqueBranch
FlowDerives(f) ==
  /\ flows[f].pc = "derive"
  /\ flows' = [flows EXCEPT ![f].pc = "check",
                            ![f].desiredBranchName = DeriveBranchName(flows[f].prTitle),
                            ![f].counter = 0]
  /\ UNCHANGED <<configVars, pathVars, raceVars, cliVars, serverVars>>

\* git_helpers.ts lines 168-173: one test of the while loop, with its
\* `git ls-remote`
FlowChecksRemote(f) ==
  /\ flows[f].pc = "check"
  /\ \E success \in BOOLEAN :
       flows' =
         IF remoteBranchExists(
              CandidateName(flows[f].desiredBranchName, flows[f].counter),
              remote.branches, success)
           THEN [flows EXCEPT ![f].counter = @ + 1]
           ELSE [flows EXCEPT ![f].pc = "create",
                   ![f].newBranchName =
                      CandidateName(flows[f].desiredBranchName, flows[f].counter)]
  /\ UNCHANGED <<configVars, pathVars, raceVars, cliVars, serverVars>>

\* git_helpers.ts lines 175-179: `git checkout -b <name>` in the clone
FlowCreatesBranch(f) ==
  /\ flows[f].pc = "create"
  /\ \E checkoutOk \in BOOLEAN :
       flows' = [flows EXCEPT ![f].pc = IF GitCommandThrows(checkoutOk)
                                          THEN "failed" ELSE "commit"]
  /\ UNCHANGED <<configVars, pathVars, raceVars, cliVars, serverVars>>

\* the commits two runs can make: runs that commit the same changes with the
\* same message on the same base within one second make the same commit
CommitHashes == {"c1", "c2"}

\* cli.ts lines 607-620: the changes applied and committed
FlowCommits(f) ==
  /\ flows[f].pc = "commit"
  /\ \E commitOk \in BOOLEAN, hash \in CommitHashes :
       flows' = IF GitCommandThrows(commitOk)
                  THEN [flows EXCEPT ![f].pc = "failed"]
                  ELSE [flows EXCEPT ![f].pc = "push", ![f].commit = hash]
  /\ UNCHANGED <<configVars, pathVars, raceVars, cliVars, serverVars>>

\* the remote takes a push that creates the branch or leaves it where it is,
\* and rejects one that is not a fast-forward of the branch it holds
PushAccepted(f) ==
  \/ flows[f].newBranchName \notin remote.branches
  \/ \E g \in FlowIds \ {f} :
       /\ flows[g].pushed = "ok"
       /\ flows[g].newBranchName = flows[f].newBranchName
       /\ flows[g].commit = flows[f].commit

\* cli.ts lines 622-624 and git_helpers.ts lines 203-209: `git push -u origin
\* <name>`; reachable says whether the remote could be reached
FlowPushes(f) ==
  /\ flows[f].pc = "push"
  /\ \E reachable \in BOOLEAN :
       LET pushOk == reachable /\ PushAccepted(f)
       IN /\ flows' = [flows EXCEPT ![f].pc = IF GitCommandThrows(pushOk)
                                                THEN "failed" ELSE "pushed",
                                    ![f].pushed = IF pushOk THEN "ok" ELSE "rejected"]
          /\ remote' = IF pushOk
                          THEN [remote EXCEPT !.branches = @ \cup {flows[f].newBranchName}]
                          ELSE remote
  /\ UNCHANGED <<configVars, pathVars, raceVars, cli, serverVars>>

NextFlow ==
  \E f \in FlowIds :
    \/ FlowDerives(f) \/ FlowChecksRemote(f) \/ FlowCreatesBranch(f)
    \/ FlowCommits(f) \/ FlowPushes(f)

\* one workflow run for a title, against a remote without branches
InitTitle ==
  /\ schemaId = "cli"
  /\ mem = [schema |-> Schemas[schemaId], base |-> EmptyObject, work |-> EmptyObject]
  /\ file = FileOf("absent", EmptyObject)
  /\ handle = NoHandle
  /\ promptHistory = <<>>
  /\ scripted = <<>>
  /\ disk = "ok"
  /\ last = NoOp
  /\ platform = HomePlatform
  /\ configPath = NoPath
  /\ writers = [h \in HandleIds |-> NoWriter(mem)]
  /\ lastWriter = "none"
  /\ cli = NoCli
  /\ remote = NoRemote
  /\ \E prTitle \in Titles :
       flows = [f \in FlowIds |-> IF f = "f1" THEN FlowStarted(prTitle) ELSE NoFlow]
  /\ server = NoServer
  /\ log = {}

SpecTitle == InitTitle /\ [][NextFlow]_vars

\* titles of the requests served at once
RaceTitles == {<<"a">>, Characters("Automated PR")}

\* the branches a remote may hold already: candidates of the desired name
RemoteBranches(desired) ==
  SUBSET {CandidateName(desired, n) : n \in 0..MaxBranches - 1}

\* two requests with the same title served at once
InitBranch ==
  /\ schemaId = "cli"
  /\ mem = [schema |-> Schemas[schemaId], base |-> EmptyObject, work |-> EmptyObject]
  /\ file = FileOf("absent", EmptyObject)
  /\ handle = NoHandle
  /\ promptHistory = <<>>
  /\ scripted = <<>>
  /\ disk = "ok"
  /\ last = NoOp
  /\ platform = HomePlatform
  /\ configPath = NoPath
  /\ writers = [h \in HandleIds |-> NoWriter(mem)]
  /\ lastWriter = "none"
  /\ cli = NoCli
  /\ \E prTitle \in RaceTitles :
       /\ flows = [f \in FlowIds |-> FlowStarted(prTitle)]
       /\ \E existing \in RemoteBranches(DeriveBranchName(prTitle)) :
            remote = [branches |-> existing, prs |-> {}]
  /\ server = NoServer
  /\ log = {}

SpecBranch == InitBranch /\ [][NextFlow]_vars

----------------------------------------------------------------------------
(* The HTTP server: one /create-pr request at a time, its validation, the  *)
(* runCli call it makes and the response it sends.                          *)

\* part_001 line 53: PR_MAKER_GITHUB_TOKEN of the server process
ServerTokens == {Undefined, Str("ghp_secret")}

\* the JSON bodies a client may send: required fields present or empty,
\* optional fields absent, empty or given
Payloads ==
  [githubOrg : {Str(""), Str("acme")}, repoName : {Str("repo")},
   baseBranch : {Str("main")}, prTitle : {Str("Automated PR")},
   proposedChanges : {<<"object", "changes">>},
   prBody : {Undefined, Str(""), Str("body")},
   prLabels : {Undefined, Str("bug")},
   dryRun : {Undefined, Bool("true")}]

\* part_001 lines 135-171: the fields the validation rejects
ValidationErrors(payload) ==
  {k \in {"githubOrg", "repoName", "baseBranch", "prTitle"} :
     ~Truthy(payload[k]) \/ TypeOf(payload[k]) # "string"} \cup
  {k \in {"proposedChanges"} :
     payload[k] \in {Undefined, Null} \/ TypeOf(payload[k]) # "object"} \cup
  {k \in {"prBody", "prLabels"} :
     payload[k] # Undefined /\ TypeOf(payload[k]) # "string"} \cup
  {k \in {"dryRun"} :
     payload[k] # Undefined /\ TypeOf(payload[k]) # "boolean"}

\* part_001 lines 178-202: argsOverride
argsOverride(payload, token) ==
  <<"--yes", "--githubToken", token[2], "--githubOrg", payload.githubOrg[2],
    "--repoName", payload.repoName[2], "--baseBranch", payload.baseBranch[2],
    "--prTitle", payload.prTitle[2]>>
  \o (IF Truthy(payload.prBody) /\ TypeOf(payload.prBody) = "string"
        THEN <<"--prBody", payload.prBody[2]>> ELSE <<>>)
  \o (IF Truthy(payload.prLabels) /\ TypeOf(payload.prLabels) = "string"
        THEN <<"--prLabels", payload.prLabels[2]>> ELSE <<>>)
  \o (IF payload.dryRun = Bool("true") THEN <<"--dryRun">> ELSE <<>>)

\* cli.ts lines 300-320: argsDefinition, the options by their flags
BooleanFlags == {"--help", "--yes", "--dryRun"}

OptionName(flag) ==
  CASE flag = "--help" -> "help"
    [] flag = "--yes" -> "yes"
    [] flag = "--dryRun" -> "dryRun"
    [] flag = "--githubOrg" -> "githubOrg"
    [] flag = "--repoName" -> "repoName"
    [] flag = "--baseBranch" -> "baseBranch"
    [] flag = "--prTitle" -> "prTitle"
    [] flag = "--prBody" -> "prBody"
    [] flag = "--prLabels" -> "prLabels"
    [] flag = "--githubToken" -> "githubToken"

\* a parsed argument list of all options with nothing given
NoArgsGiven ==
  [help |-> Bool("false"), yes |-> Bool("false"), dryRun |-> Bool("false"),
   githubOrg |-> Undefined, repoName |-> Undefined, baseBranch |-> Undefined,
   prTitle |-> Undefined, prBody |-> Undefined, prLabels |-> Undefined,
   githubToken |-> Undefined]

\* cli.ts line 427: parseArgs(argsOverride, argsDefinition) from position i:
\* a boolean flag is set, a string option takes the argument after it
RECURSIVE ParseArgsFrom(_, _, _)
ParseArgsFrom(argv, i, parsed) ==
  IF i > Len(argv) THEN parsed
  ELSE IF argv[i] \in BooleanFlags
    THEN ParseArgsFrom(argv, i + 1, [parsed EXCEPT ![OptionName(argv[i])] = Bool("true")])
  ELSE IF i < Len(argv)
    THEN ParseArgsFrom(argv, i + 2, [parsed EXCEPT ![OptionName(argv[i])] = Str(argv[i + 1])])
  ELSE [parsed EXCEPT ![OptionName(argv[i])] = Str("")]

parseArgs(argv) == ParseArgsFrom(argv, 1, NoArgsGiven)

\* part_001 line 132: the line that shows the payload received
PayloadLine(payload) ==
  <<"Received Payload:", payload.githubOrg[2], payload.repoName[2],
    payload.baseBranch[2], payload.prTitle[2]>>

\* part_001 line 206: the line that shows the arguments, the token filtered out
ArgsLine(argv, token) ==
  <<"Calling runCli with args:">> \o SelectSeq(argv, LAMBDA arg : arg # token[2])

\* part_001 lines 111-209: a request arrives; without a token the server
\* answers 500, an invalid payload is answered with 400, and for a valid one
\* runCli is called with the arguments made from it
HandleCreatePr ==
  /\ server.pc \in {"idle", "responded"}
  /\ \E payload \in Payloads :
       IF ~Truthy(server.token)
         THEN /\ server' = [server EXCEPT !.pc = "responded", !.status = 500]
              /\ UNCHANGED <<configVars, pathVars, raceVars, cliVars, flowVars, log>>
       ELSE IF ValidationErrors(payload) # {}
         THEN /\ server' = [server EXCEPT !.pc = "responded", !.status = 400]
              /\ log' = log \cup {PayloadLine(payload)}
              /\ UNCHANGED <<configVars, pathVars, raceVars, cliVars, flowVars>>
       ELSE /\ RunCliStartsWith({parseArgs(argsOverride(payload, server.token))})
            /\ server' = [server EXCEPT !.pc = "running", !.status = 0]
            /\ log' = log \cup {PayloadLine(payload),
                                ArgsLine(argsOverride(payload, server.token), server.token)}

\* part_001 lines 209-228: runCli has returned or thrown; the response is
\* 200 for exit code 0 and 500 otherwise
ServerResponds ==
  /\ server.pc = "running"
  /\ cli.pc \in {"returned", "threw"}
  /\ server' = [server EXCEPT !.pc = "responded",
                  !.status = IF cli.pc = "returned" /\ cli.result.exitCode = 0
                               THEN 200 ELSE 500]
  /\ UNCHANGED <<configVars, pathVars, raceVars, cliVars, flowVars, log>>

\* persisted files the server may find: none, one that holds a value for
\* every key, and one in which the pull request body was stored as ''
ServerFiles ==
  {FileOf("absent", EmptyObject),
   FileOf("ok", [k \in DOMAIN PrMakerConfig |->
                   FromFileOfType(TypeOf(UnwrapValue(PrMakerConfig[k])))]),
   FileOf("ok", [prBody |-> Str("")])}

InitServer ==
  /\ schemaId = "server"
  /\ mem = [schema |-> Schemas[schemaId], base |-> EmptyObject, work |-> EmptyObject]
  /\ file \in ServerFiles
  /\ handle = NoHandle
  /\ promptHistory = <<>>
  /\ scripted = <<>>
  /\ disk \in {"ok", "failing"}
  /\ last = NoOp
  /\ platform = HomePlatform
  /\ configPath = NoPath
  /\ writers = [h \in HandleIds |-> NoWriter(mem)]
  /\ lastWriter = "none"
  /\ cli = NoCli
  /\ remote = NoRemote
  /\ flows = NoFlows
  /\ \E token \in ServerTokens : server = [NoServer EXCEPT !.token = token]
  /\ log = {}

NextServer ==
  \/ HandleCreatePr \/ RunCliCheckout \/ RunCliCreateBranch \/ RunCliApply
  \/ RunCliCommit \/ RunCliPush \/ RunCliCreatePr \/ RunCliCleanup
  \/ ServerResponds

SpecServer == InitServer /\ [][NextServer]_vars

----------------------------------------------------------------------------
(* Properties.  A property of "any initConfig call" is stated over every  *)
(* call that can be made in the current state: the run the InitConfig     *)
(* action would perform, for each of its inputs.                          *)

InitInputs == Overrides(schemaId) \X Envs(schemaId) \X TerminalAnswers

\* the initConfig call made in the current state with inputs in = <<ov, env, term>>
RunOf(driver, in) ==
  InitConfigRun(schemaId, mem, file, promptHistory, scripted, driver,
                in[1], in[2], in[3], WriteOutcome)

\* the keys for which a prompt fired, in firing order
FiredKeys(r) == [i \in 1..Len(r.fired) |-> r.fired[i].key]

SeqRange(q) == {q[i] : i \in 1..Len(q)}

OptionsIn(sid, key) == EntryOptions(Schemas[sid][key])

\* the precedence order as the specification words it
Precedence(sid, f, ov, env, key) ==
  IF ov.given /\ key \in DOMAIN ov.obj /\ ov.obj[key] # Undefined THEN ov.obj[key]
  ELSE IF /\ EnvNameOf(sid, key) # ""
          /\ EnvNameOf(sid, key) \in DOMAIN env
          /\ env[EnvNameOf(sid, key)] # Str("")
         THEN env[EnvNameOf(sid, key)]
  ELSE IF f.state = "ok" /\ key \in DOMAIN f.content THEN f.content[key]
  ELSE DefaultOf(sid, key)

\* C1: for every schema key the value resolved before any prompt is the
\* override if supplied and not undefined, else the non-empty environment
\* value if the key declares envOverride, else the value in the persisted
\* file if it was read and has the key, else the unwrapped default
C1_Precedence ==
  \A in \in InitInputs : \A r \in {RunOf("terminal", in)} :
    \A k \in SchemaKeys(schemaId) :
      r.resolved[k] = Precedence(schemaId, file, in[1], in[2], k)

\* an initConfig call has returned a handle whose first key holds the
\* override although the persisted file stores a value for that key
C1_Witness ==
  /\ last.op = "init" /\ last.outcome = "ok"
  /\ file.state = "ok" /\ FirstKey(schemaId) \in DOMAIN file.content
  /\ Get(mem, handle, FirstKey(schemaId)) \in {Str("fromoverride"), Num("7")}

\* a value that JSON.stringify writes as it is
JSONRepresentable(v) == JSONValue(v) = v

\* the new initConfig call of the round trip: no overrides, no environment
ReInit(term) ==
  InitConfigRun(schemaId, mem, file, promptHistory, scripted, "terminal",
                NoOverrides, NoEnv, term, WriteOutcome)

\* C2 as claimed: after a successful set(k, v) of a schema key, a new
\* initConfig without overrides and environment returns get(k) = v
C2_RoundTripAnyValue ==
  (last.op = "set" /\ last.outcome = "ok" /\ last.key \in SchemaKeys(schemaId)) =>
    \A term \in TerminalAnswers : \A r \in {ReInit(term)} :
      r.outcome = "ok" => ReadProp(r.mem[r.cur], last.key) = last.value

\* C2 as amended: the round trip holds when v is JSON-representable and is
\* truthy or stored for a key that does not declare promptIfFalsy
C2_RoundTrip ==
  (/\ last.op = "set" /\ last.outcome = "ok" /\ last.key \in SchemaKeys(schemaId)
   /\ JSONRepresentable(last.value)
   /\ Truthy(last.value) \/ ~Truthy(OptionsIn(schemaId, last.key).promptIfFalsy)) =>
    \A term \in TerminalAnswers : \A r \in {ReInit(term)} :
      r.outcome = "ok" => ReadProp(r.mem[r.cur], last.key) = last.value

\* a successful set has stored a value other than the default and other
\* than what the file held when the handle was made
C2_Witness ==
  /\ last.op = "set" /\ last.outcome = "ok" /\ last.key \in SchemaKeys(schemaId)
  /\ last.value \in {Str("world"), Num("456"), Bool("true")}
  /\ \E term \in TerminalAnswers : ReInit(term).outcome = "ok"

\* C3 as claimed: set with a key that is not in the schema fails with
\* UnknownConfigKey, writes nothing and adds nothing to the snapshot
C3_UnknownKeyRejected ==
  (last.op = "set" /\ last.key \notin SchemaKeys(schemaId)) =>
    /\ last.outcome = "UnknownConfigKey"
    /\ ~last.wrote
    /\ last.key \notin DOMAIN mem[handle.cur]

\* C4: neither initConfig nor any set alters the caller's schema object or
\* the base snapshot taken from it
C4_SchemaNeverMutated ==
  /\ mem["schema"] = Schemas[schemaId]
  /\ handle.status = "ready" => mem[handle.base] = UnwrapDefaults(Schemas[schemaId])

\* a set has changed a schema key of the working snapshot away from its default
C4_Witness ==
  /\ last.op = "set" /\ last.outcome = "ok" /\ last.key \in SchemaKeys(schemaId)
  /\ Get(mem, handle, last.key) = last.value
  /\ last.value # DefaultOf(schemaId, last.key)

\* C5: no prompt fires for a key whose resolved value is truthy, whatever its
\* promptIfFalsy; a key whose environment variable is set and non-empty and
\* that has no override is never prompted
C5_PromptSuppression ==
  \A in \in InitInputs : \A r \in {RunOf("terminal", in)} :
    \A k \in SchemaKeys(schemaId) :
      /\ Truthy(r.resolved[k]) => k \notin SeqRange(FiredKeys(r))
      /\ (EnvApplies(OptionsIn(schemaId, k), in[2]) /\ ~OverrideApplies(in[1], k))
            => k \notin SeqRange(FiredKeys(r))

\* an initConfig call returned without prompting although a key that declares
\* promptIfFalsy has an empty default: its value came from the environment
C5_Witness ==
  /\ last.op = "init" /\ last.outcome = "ok" /\ last.prompts = 0
  /\ \E k \in SchemaKeys(schemaId) :
       /\ Truthy(OptionsIn(schemaId, k).promptIfFalsy)
       /\ Get(mem, handle, k) = Str("fromenv")

\* C6: an initConfig call that returns a handle writes the file if and only
\* if a prompt fired; without a prompt the file is left as it was
C6_WriteIffPrompted ==
  \A in \in InitInputs : \A r \in {RunOf("terminal", in)} :
    r.outcome = "ok" =>
      /\ r.wrote <=> Len(r.fired) > 0
      /\ Len(r.fired) = 0 => r.file = file
      /\ Len(r.fired) > 0 => r.file = FileOf("ok", JSONStringify(r.mem[r.cur]))

\* a handle was returned without a prompt and without a write: the file is
\* still absent although the snapshot differs from the defaults
C6_Witness ==
  /\ last.op = "init" /\ last.outcome = "ok" /\ last.prompts = 0 /\ ~last.wrote
  /\ file.state = "absent"
  /\ mem[handle.cur] # UnwrapDefaults(Schemas[schemaId])

\* C7: right after a prompted initConfig returns and right after a
\* successful set, the file holds the serialization of the whole working
\* snapshot
C7_FullOverwrite ==
  (last.op \in {"init", "set"} /\ last.outcome = "ok" /\ last.wrote) =>
    file = FileOf("ok", JSONStringify(mem[handle.cur]))

\* a successful set replaced a file that held other members than the
\* snapshot written
C7_Witness ==
  /\ last.op = "set" /\ last.outcome = "ok" /\ last.wrote
  /\ file.state = "ok"
  /\ DOMAIN file.content = SchemaKeys(schemaId)
  /\ \E k \in SchemaKeys(schemaId) : file.content[k] # DefaultOf(schemaId, k)

IsPrefix(a, b) == Len(a) <= Len(b) /\ a = SubSeq(b, 1, Len(a))

\* the schema keys that declare promptIfFalsy and are still falsy after
\* file, override and environment resolution, in schema key order
ExpectedPrompts(r) ==
  SelectSeq(SchemaOrder[schemaId],
            LAMBDA k : /\ Truthy(OptionsIn(schemaId, k).promptIfFalsy)
                       /\ ~Truthy(r.resolved[k]))

\* what every initConfig call does with the prompt history and the scripted
\* answers: one record per fired prompt, the i-th prompt answered by the
\* i-th queued answer, the answers readable through get afterwards
PromptBookkeeping(r) ==
  /\ r.hist = promptHistory \o [i \in 1..Len(r.fired) |-> [message |-> r.fired[i].message]]
  /\ \A i \in 1..Len(r.fired) :
       /\ r.fired[i].histLen = Len(promptHistory) + i - 1
       /\ r.fired[i].message =
            PromptMessage(r.fired[i].key, OptionsIn(schemaId, r.fired[i].key))
       /\ i <= Len(scripted) => r.fired[i].answer = scripted[i]
  /\ Len(r.queue) = IF Len(scripted) > Len(r.fired)
                      THEN Len(scripted) - Len(r.fired) ELSE 0
  /\ r.outcome = "ok" =>
       \A i \in 1..Len(r.fired) :
         ReadProp(r.mem[r.cur], r.fired[i].key) = r.fired[i].answer

C9_CancelAborts ==
  /\ \A in \in InitInputs : \A r \in {RunOf("terminal", in)} :
       \A i \in 1..Len(r.fired) :
         r.fired[i].answer = Null =>
           /\ r.outcome = "ConfigIncomplete"
           /\ r.errKey = r.fired[i].key
           /\ r.message = CancelledMessage(r.fired[i].key)
           /\ i = Len(r.fired)
           /\ ~r.wrote
  /\ (last.op = "init" /\ last.outcome # "ok") => handle.status = "none"

\* an initConfig call failed because a prompt was cancelled
C9_Witness ==
  /\ last.op = "init" /\ last.outcome = "ConfigIncomplete"
  /\ last.key \in SchemaKeys(schemaId)
  /\ handle.status = "none"

\* C10 as claimed: after initConfig the working snapshot has exactly the
\* schema's keys
C10_FileKeysIgnored ==
  (last.op = "init" /\ last.outcome = "ok") =>
    DOMAIN mem[handle.cur] = SchemaKeys(schemaId)

\* C11 as claimed: while a handle exists, the base type of get(k) is the base
\* type of the schema default of k, for every schema key k
C11_TypeOfDefaultKept ==
  handle.status = "ready" =>
    \A k \in SchemaKeys(schemaId) :
      TypeOf(Get(mem, handle, k)) = TypeOf(DefaultOf(schemaId, k))

\* C12 as claimed: while a handle exists its working snapshot changes only in
\* a set call (or is replaced by a new initConfig call), never through an
\* object the caller obtained from the handle
C12_SnapshotOwnedByHandle ==
  [][(handle.status = "ready" /\ mem'[handle.cur] # mem[handle.cur])
       => last'.op \in {"set", "init"}]_vars

\* C13: when the persisted file is missing, unreadable or not JSON, every
\* initConfig call resolves each key as without a file (override, else
\* environment, else default), prompts as usual, and returns a handle unless
\* a prompt is cancelled or the write after a prompt fails
C13_FileTroubleNotFatal ==
  file.state \in {"absent", "unreadable", "corrupt"} =>
    \A in \in InitInputs : \A r \in {RunOf("terminal", in)} :
      /\ \A k \in SchemaKeys(schemaId) :
           r.resolved[k] =
             Precedence(schemaId, FileOf("absent", EmptyObject), in[1], in[2], k)
      /\ IsPrefix(FiredKeys(r), ExpectedPrompts(r))
      /\ r.outcome \in {"ok", "ConfigIncomplete", "WriteFailed"}
      /\ r.outcome = "ConfigIncomplete" <=>
           \E i \in 1..Len(r.fired) : r.fired[i].answer = Null
      /\ r.outcome = "WriteFailed" <=>
           /\ FiredKeys(r) = ExpectedPrompts(r) /\ Len(r.fired) > 0
           /\ \A i \in 1..Len(r.fired) : r.fired[i].answer # Null
           /\ disk = "failing"

\* an initConfig call returned a handle although the persisted file is not
\* JSON or cannot be read; the snapshot holds an override or environment value
C13_Witness ==
  /\ last.op = "init" /\ last.outcome = "ok"
  /\ file.state \in {"unreadable", "corrupt"}
  /\ handle.status = "ready"
  /\ mem[handle.cur] # UnwrapDefaults(Schemas[schemaId])

\* a directory variable that is set and not empty
Available(v) == v \notin {Undefined, Str("")}

\* the home/profile information the platform needs is absent
HomeInfoAbsent(p) ==
  CASE p.os = "windows" -> ~Available(p.env["APPDATA"])
    [] p.os = "darwin"  -> ~Available(p.env["HOME"])
    [] OTHER -> ~Available(p.env["XDG_CONFIG_HOME"]) /\ ~Available(p.env["HOME"])

UnixLike(p) == p.os \notin {"windows", "darwin"}

\* C14 as claimed: getConfigPath fails exactly when the home/profile
\* information is absent; on a Unix-like system the root is XDG_CONFIG_HOME
\* when available and HOME/.config otherwise, so it succeeds whenever HOME is
\* known; the path is <root>/<appId>/config.json
C14_PathResolution ==
  configPath.status # "none" =>
    /\ configPath.status = "throws" <=> HomeInfoAbsent(platform)
    /\ (UnixLike(platform) /\ Available(platform.env["XDG_CONFIG_HOME"])) =>
         configPath.path =
           <<platform.env["XDG_CONFIG_HOME"][2], configPath.appId, "config.json">>
    /\ (UnixLike(platform) /\ ~Available(platform.env["XDG_CONFIG_HOME"])
           /\ Available(platform.env["HOME"])) =>
         /\ configPath.status = "ok"
         /\ configPath.path =
              <<platform.env["HOME"][2], ".config", configPath.appId, "config.json">>
    /\ (platform.os = "windows" /\ configPath.status = "ok") =>
         configPath.path =
           <<platform.env["APPDATA"][2], configPath.appId, "config.json">>
    /\ (platform.os = "darwin" /\ configPath.status = "ok") =>
         configPath.path =
           <<platform.env["HOME"][2], "Library", "Application Support",
             configPath.appId, "config.json">>

\* the working snapshot of handle h
SnapshotOf(h) == writers[h].mem[writers[h].handle.cur]

\* C15: whenever the handle whose write completed last is idle, the file is
\* the serialization of that handle's whole snapshot, whatever the other
\* handle has set and written before: for every key the file holds the last
\* writer's value
C15_LastWriterWins ==
  \A h \in HandleIds :
    (lastWriter = h /\ ~writers[h].busy /\ writers[h].handle.status = "ready") =>
      /\ file = FileOf("ok", JSONStringify(SnapshotOf(h)))
      /\ \A k \in SchemaKeys(schemaId) : file.content[k] = SnapshotOf(h)[k]

\* a lost update: both handles are idle, h1 has set the first key and h2 the
\* last key, h2's write completed last, and the file holds h2's values for
\* both keys, so h1's value for the first key is gone
C15_Witness ==
  /\ lastWriter = "h2" /\ ~writers["h1"].busy /\ ~writers["h2"].busy
  /\ writers["h1"].handle.status = "ready" /\ writers["h2"].handle.status = "ready"
  /\ SnapshotOf("h1")[FirstKey(schemaId)] = RaceValue(schemaId, FirstKey(schemaId))
  /\ SnapshotOf("h2")[LastKey(schemaId)] = RaceValue(schemaId, LastKey(schemaId))
  /\ file.content[LastKey(schemaId)] = RaceValue(schemaId, LastKey(schemaId))
  /\ file.content[FirstKey(schemaId)] # RaceValue(schemaId, FirstKey(schemaId))

\* the order of the workflow steps
WorkflowOrder == <<"checkout", "branch", "apply", "commit", "push", "createPr">>

\* C16: the steps a runCli call has run are an initial part of checkout,
\* branch, apply, commit, push, createPr, each started after every earlier
\* one succeeded; no pull request exists for a branch that was not pushed
C16_StepsInOrder ==
  /\ Len(cli.steps) <= Len(WorkflowOrder)
  /\ \A i \in 1..Len(cli.steps) :
       /\ cli.steps[i].step = WorkflowOrder[i]
       /\ i < Len(cli.steps) => cli.steps[i].ok
  /\ \A pr \in remote.prs : pr.head \in remote.branches

\* a run went through all six steps and the pull request was made
C16_Witness ==
  /\ cli.pc = "returned" /\ Len(cli.steps) = 6
  /\ \A i \in 1..6 : cli.steps[i].ok
  /\ [head |-> cli.newBranchName] \in remote.prs

\* every workflow step of the current run succeeded
AllStepsOk ==
  /\ Len(cli.steps) = Len(WorkflowOrder)
  /\ \A i \in 1..Len(cli.steps) : cli.steps[i].ok

\* C17: a runCli call that started the workflow returns exit code 0 with the
\* pull request URL exactly when all six steps succeeded, returns exit code 1
\* with the reason of the failed step otherwise, and never throws
C17_ResultReflectsWorkflow ==
  /\ (cli.pc = "returned" /\ cli.steps # <<>>) =>
       /\ (cli.result.exitCode = 0 /\ cli.result.prUrl # <<>>) <=> AllStepsOk
       /\ AllStepsOk =>
            /\ cli.result.prUrl = PrUrl(cli.newBranchName)
            /\ [head |-> cli.newBranchName] \in remote.prs
       /\ ~AllStepsOk =>
            /\ cli.result.exitCode = 1
            /\ cli.result.prUrl = <<>>
            /\ cli.result.error = cli.steps[Len(cli.steps)].step
            /\ ~cli.steps[Len(cli.steps)].ok
  /\ cli.pc = "threw" => cli.steps = <<>>

\* a run whose push failed has returned exit code 1 with that reason
C17_Witness ==
  /\ cli.pc = "returned" /\ Len(cli.steps) = 5
  /\ cli.result.exitCode = 1 /\ cli.result.error = "push"

\* C18 as claimed: a run with dryRun set pushes no branch and creates no
\* pull request
C18_DryRunMakesNoChanges ==
  Truthy(cli.args.dryRun) =>
    \A i \in 1..Len(cli.steps) : cli.steps[i].step \notin {"push", "createPr"}

\* C19 as claimed: after an initConfig call with an override for key k, a
\* later initConfig call without overrides and environment resolves k as the
\* file (or the default) had it before the first call
C19_OverridesNotPersisted ==
  \A in \in InitInputs : \A r \in {RunOf("terminal", in)} :
    r.outcome = "ok" =>
      \A k \in SchemaKeys(schemaId) :
        OverrideApplies(in[1], k) =>
          \A term \in TerminalAnswers :
            \A r2 \in {InitConfigRun(schemaId, r.mem, r.file, r.hist, r.queue,
                                      "terminal", NoOverrides, NoEnv, term,
                                      WriteOutcome)} :
              r2.resolved[k] = Precedence(schemaId, file, NoOverrides, NoEnv, k)

ValidBranchName(name) ==
  /\ name # <<>>
  /\ \A i \in 1..Len(name) : IsBranchChar(name[i])
  /\ name[1] # "-" /\ name[Len(name)] # "-"
  /\ \A i \in 1..Len(name) - 1 : ~(name[i] = "-" /\ name[i + 1] = "-")

\* the title holds no letter and no digit
NoValidChar(prTitle) ==
  \A i \in 1..Len(prTitle) : ~IsBranchChar(LowerChar(prTitle[i])) \/ prTitle[i] = "-"

\* C21 as claimed: the branch name a workflow run derives from its title is a
\* valid sanitized name, and it is the fallback name when the title holds no
\* letter and no digit
C21_DerivedNameSanitized ==
  \A f \in FlowIds :
    flows[f].pc \notin {"off", "derive"} =>
      /\ ValidBranchName(flows[f].desiredBranchName)
      /\ NoValidChar(flows[f].prTitle) => flows[f].desiredBranchName = AutomatedPr

\* C22: a step that is a set call for a schema key leaves get of every other
\* schema key as it was, and leaves the prompt history and the scripted
\* answers as they were
C22_SetChangesOnlyItsKey ==
  [][(handle.status = "ready" /\ last'.op = "set"
        /\ last'.key \in SchemaKeys(schemaId))
      => /\ \A k \in SchemaKeys(schemaId) \ {last'.key} :
              Get(mem', handle', k) = Get(mem, handle, k)
         /\ promptHistory' = promptHistory
         /\ scripted' = scripted]_vars

\* a set call succeeded on a handle whose initConfig call had prompted, and
\* another key still holds the answer typed at the prompt
C22_Witness ==
  /\ last.op = "set" /\ last.outcome = "ok" /\ last.key \in SchemaKeys(schemaId)
  /\ promptHistory # <<>>
  /\ \E k \in SchemaKeys(schemaId) \ {last.key} : Get(mem, handle, k) = Str("typed")

\* the first of desired, desired-1, desired-2, ... that is not in branches
LeastFreeName(desired, branches) ==
  CandidateName(desired,
    CHOOSE n \in 0..Cardinality(branches) :
      /\ CandidateName(desired, n) \notin branches
      /\ \A m \in 0..n - 1 : CandidateName(desired, m) \in branches)

\* C23 as claimed: the name createUniqueBranch settles on, while nothing has
\* been pushed to the remote since the call began, is the first of desired,
\* desired-1, desired-2, ... that the remote does not hold
C23_ReturnsLeastFreeName ==
  \A f \in FlowIds :
    (flows[f].pc = "create" /\ \A g \in FlowIds : flows[g].pushed # "ok") =>
      flows[f].newBranchName = LeastFreeName(flows[f].desiredBranchName, remote.branches)

\* C24 as claimed: two workflow runs served at once never both push the same
\* branch name successfully
C24_NoSharedBranchName ==
  \A f, g \in FlowIds :
    (f # g /\ flows[f].pushed = "ok" /\ flows[g].pushed = "ok") =>
      flows[f].newBranchName # flows[g].newBranchName

\* C25: a runCli call never ends with a temporary directory that was made
\* and that nothing tried to remove, and the finally block leaves the result
\* of the call as the workflow set it
C25_TempDirRemovalAttempted ==
  [][/\ cli'.pc \in {"returned", "threw"} => cli'.tempDir # "made"
     /\ cli.pc = "cleanup" => cli'.result = cli.result]_vars

\* a workflow that succeeded and whose temporary directory could not be
\* removed: the call returned the pull request all the same
C25_Witness ==
  /\ cli.pc = "returned"
  /\ cli.tempDir = "removeFailed"
  /\ cli.result.exitCode = 0
  /\ cli.result.prUrl # <<>>

\* C26: a step that ends an initConfig call with ConfigIncomplete leaves the
\* persisted file as it was, whatever prompts were answered before the
\* cancelled one
C26_CancelledLeavesFile ==
  [][(last'.op = "init" /\ last'.outcome = "ConfigIncomplete") => file' = file]_vars

\* an initConfig call found a persisted file, had its first prompt answered
\* and its second prompt cancelled
C26_Witness ==
  /\ last.op = "init" /\ last.outcome = "ConfigIncomplete"
  /\ last.prompts >= 2
  /\ file.state = "ok"

\* C27 as claimed: a step that ends a set call with a failed write leaves the
\* working snapshot as it was: get of every schema key returns what it
\* returned before the call
C27_FailedSetLeavesSnapshot ==
  [][(handle.status = "ready" /\ last'.op = "set" /\ last'.outcome = "WriteFailed")
       => \A k \in SchemaKeys(schemaId) : Get(mem', handle', k) = Get(mem, handle, k)]_vars

\* C28 as claimed: whenever the confirmation loop of runCli is about to run
\* an iteration, that iteration asks the user to continue, change or exit
\* (line 499 lets it ask), so that the loop can end
C28_LoopAsksUser ==
  cli.pc = "confirm" => ~Truthy(cli.cfg["yes"])

\* C29 as claimed: the runCli call made for a request that passed validation
\* fires no initConfig prompt and does not enter the confirmation loop
C29_ServerNeverPrompts ==
  server.pc = "running" => (cli.prompts = 0 /\ cli.pc # "confirm")

\* C30 as claimed: no line written to the console contains the token of the
\* server
C30_TokenNeverLogged ==
  Truthy(server.token) => \A line \in log : ~Contains(line, server.token[2])

====
